---------------------------- MODULE Spec2Model ----------------------------
(***************************************************************************)
(* Model of the "Check, Please" workflow core:                             *)
(*   src/src/checklist.ts   step model, leveling, cycles, nextSteps,       *)
(*                          generateExecutionContext                       *)
(*   src/src/completers.ts  the four step executors (lines 105-267)        *)
(*                                                                         *)
(* Optional JavaScript values are modelled as sequences of length <= 1:    *)
(* <<>> is undefined and <<v>> is the defined value v.  An object used as  *)
(* a dictionary ({ [k: string]: T }) is a record of its own properties (a  *)
(* function whose DOMAIN is the set of keys that have been assigned) and   *)
(* its prototype: None for Object.prototype, the prototype of an object    *)
(* literal, and Some(v) once v was assigned to '__proto__'.                *)
(***************************************************************************)
EXTENDS Integers, Sequences, FiniteSets, TLC

VARIABLES
    checklist,  \* the Checklist object: [requester, steps]
    context,    \* the shared ExecutionContext: stepID -> StepResult
    runs,       \* runs[r]: the position in checklist.steps of the step of run r
    pc,         \* pc[r]: where run r of an executor's action stands
    err,        \* err[r]: why run r was rejected ("none" if not)
    loc,        \* loc[r]: the locals of run r
    tx,         \* tx[r]: the submission started by methodTransaction.send in run r
    trace,      \* trace[r]: the effects of run r, in order
    snap,       \* snap[r]: the step of run r and its context entry when r began
    ret         \* ret[f]: what the last call of the pure function f returned

vars == <<checklist, context, pc, err, loc, tx, trace, snap, runs, ret>>

(***************************************************************************)
(* Bounds of the model.                                                    *)
(***************************************************************************)
MaxSteps == 3
MaxEdges == 3
MaxRuns == 2

(***************************************************************************)
(* JavaScript values                                                       *)
(***************************************************************************)
None == <<>>
Some(v) == <<v>>

\* obj[k] of a dictionary object when k is an own property: undefined when
\* the key was never assigned.
Get(obj, k) ==
    IF k \in DOMAIN obj.own THEN Some(obj.own[k]) ELSE None

\* A faulty assignment (the object is replaced by one that holds only the
\* new key): C19 must tell it from Put.
Put_replaceAll(obj, k, v) == [obj EXCEPT !.own = [x \in {k} |-> v]]

\* obj[k] = v, v an object (a StepResult, an array, a Step).  The key
\* '__proto__' is the accessor of Object.prototype: its setter makes v the
\* prototype of obj and creates no own property.
Put(obj, k, v) ==
    IF k = "__proto__" THEN [obj EXCEPT !.proto = Some(v)]
    ELSE [obj EXCEPT !.own = [x \in (DOMAIN obj.own) \cup {k} |->
                                 IF x = k THEN v ELSE obj.own[x]]]

\* obj[k] = v, v a boolean or a number: the setter of '__proto__' ignores
\* a value that is not an object.
PutPrimitive(obj, k, v) ==
    IF k = "__proto__" THEN obj
    ELSE [obj EXCEPT !.own = [x \in (DOMAIN obj.own) \cup {k} |->
                                 IF x = k THEN v ELSE obj.own[x]]]

\* The object literal {}.
EmptyObject == [own |-> <<>>, proto |-> None]

\* An object literal inherits the properties of Object.prototype: for
\* these keys obj[k] is a function (for '__proto__': the prototype, an
\* object), not undefined and truthy, as long as the key is not an own
\* property.  An object that '__proto__' has made the prototype is itself
\* an object literal or an array, so these keys stay inherited.
ObjectPrototypeKeys ==
    {"constructor", "toString", "toLocaleString", "valueOf", "hasOwnProperty",
     "isPrototypeOf", "propertyIsEnumerable", "__defineGetter__",
     "__defineSetter__", "__lookupGetter__", "__lookupSetter__", "__proto__"}

Inherited(obj, k) == k \notin DOMAIN obj.own /\ k \in ObjectPrototypeKeys

\* String(obj[k]) of an inherited function: what it is as a property key.
\* ({}).constructor is the function Object.
FunctionText(k) ==
    "function " \o (IF k = "constructor" THEN "Object" ELSE k)
                \o "() { [native code] }"

\* String(obj[k]) of an inherited property of an object literal;
\* ({}).__proto__ is Object.prototype.
InheritedText(k) ==
    IF k = "__proto__" THEN "[object Object]" ELSE FunctionText(k)

\* The keys of Object.prototype by ascending String(value), in UTF-16 code
\* units: '[' < 'f', and after "function " 'O' < '_' < 'h' < 'i' < 'p' <
\* 't' < 'v'.
InheritedTextOrder ==
    <<"__proto__", "constructor", "__defineGetter__", "__defineSetter__",
      "__lookupGetter__", "__lookupSetter__", "hasOwnProperty", "isPrototypeOf",
      "propertyIsEnumerable", "toLocaleString", "toString", "valueOf">>

InheritedTextRank(k) ==
    CHOOSE n \in 1..Len(InheritedTextOrder) : InheritedTextOrder[n] = k

\* A property of the StepResult that '__proto__' made the prototype of obj
\* is read through obj.
FromEntryPrototype(obj, k) ==
    /\ obj.proto # None
    /\ k \in {"success", "value", "executing"}
    /\ obj.proto[1][k] # None

\* obj[k] === undefined, for an object whose prototype is Object.prototype
\* or a StepResult.
Undefined(obj, k) ==
    Get(obj, k) = None /\ ~Inherited(obj, k) /\ ~FromEntryPrototype(obj, k)

Range(seq) == {seq[i] : i \in 1..Len(seq)}

StepIDsOf(stepSeq) == [i \in 1..Len(stepSeq) |-> stepSeq[i].stepID]

(***************************************************************************)
(* checklist.ts: isStepComplete                                            *)
(***************************************************************************)
\* A faulty isStepComplete (a Method step counts as complete once it has
\* an output): C16 must tell it from isStepComplete.
isStepComplete_methodOutput(step) ==
    CASE step.stepType = "manual" -> step.value # None
      [] step.stepType = "view" -> step.output # None
      [] step.stepType = "raw" -> step.txHash # None
      [] step.stepType = "method" -> step.txHash # None \/ step.output # None

isStepComplete(step) ==
    CASE step.stepType = "manual" -> step.value # None
      [] step.stepType = "view" -> step.output # None
      [] step.stepType = "raw" -> step.txHash # None
      [] step.stepType = "method" -> step.txHash # None

(***************************************************************************)
(* checklist.ts: checkStepIDs                                              *)
(***************************************************************************)
\* The first loop (lines 201-207): FALSE when a stepID repeats, else the
\* dictionary of the stepIDs seen.
RECURSIVE checkUnique(_, _, _)
checkUnique(stepSeq, i, stepIDs) ==
    IF i > Len(stepSeq) THEN Some(stepIDs)
    ELSE IF \/ Get(stepIDs, stepSeq[i].stepID) = Some(TRUE)
            \/ Inherited(stepIDs, stepSeq[i].stepID)
         THEN None
    ELSE checkUnique(stepSeq, i + 1,
                     PutPrimitive(stepIDs, stepSeq[i].stepID, TRUE))

checkStepIDs(cl) ==
    LET seen == checkUnique(cl.steps, 1, EmptyObject)
    IN  /\ seen # None
        /\ \A i \in 1..Len(cl.steps) :
              \A j \in 1..Len(cl.steps[i].dependsOn) :
                 ~Undefined(seen[1], cl.steps[i].dependsOn[j])

(***************************************************************************)
(* checklist.ts: nextLevel, calculateLevels, cycles                        *)
(***************************************************************************)
\* !!levels[dependencyID]: undefined and 0 are falsy, a function is truthy.
Truthy(opt) == opt # None /\ opt[1] # 0

Levelled(levels, dependencyID) ==
    Truthy(Get(levels, dependencyID)) \/ Inherited(levels, dependencyID)

\* A faulty nextLevel (some instead of every): C3 must tell it from nextLevel.
nextLevel_anyDependency(stepSeq, levels) ==
    SelectSeq(stepSeq, LAMBDA step :
        /\ Undefined(levels, step.stepID)
        /\ \/ Len(step.dependsOn) = 0
           \/ \E j \in 1..Len(step.dependsOn) :
                 Levelled(levels, step.dependsOn[j]))

nextLevel(stepSeq, levels) ==
    SelectSeq(stepSeq, LAMBDA step :
        /\ Undefined(levels, step.stepID)
        /\ \A j \in 1..Len(step.dependsOn) :
              Levelled(levels, step.dependsOn[j]))

\* The loop of lines 288-290 over levelSteps.
RECURSIVE assignLevel(_, _, _, _)
assignLevel(levels, levelSteps, currentLevel, i) ==
    IF i > Len(levelSteps) THEN levels
    ELSE assignLevel(PutPrimitive(levels, levelSteps[i].stepID, currentLevel),
                     levelSteps, currentLevel, i + 1)

\* A faulty calculateLevels (no recursion): C4 must tell it from calculateLevels.
calculateLevels_onePass(stepSeq, currentLevel, levels) ==
    assignLevel(levels, nextLevel(stepSeq, levels), currentLevel, 1)

\* Returns the levels object as the recursion leaves it.
RECURSIVE calculateLevels(_, _, _)
calculateLevels(stepSeq, currentLevel, levels) ==
    LET levelSteps == nextLevel(stepSeq, levels)
    IN  IF Len(levelSteps) = 0 THEN levels
        ELSE LET levels2 == assignLevel(levels, levelSteps, currentLevel, 1)
             IN  calculateLevels(
                     SelectSeq(stepSeq,
                               LAMBDA step : Undefined(levels2, step.stepID)),
                     currentLevel + 1,
                     levels2)

\* A faulty recursion (it stops when no step is left, not when a pass
\* levels none, and so runs until the stack is exhausted, here after
\* MaxSteps + 3 further calls): C22 must tell it from levelingPasses.
RECURSIVE levelingPasses_untilEmpty(_, _, _)
levelingPasses_untilEmpty(stepSeq, currentLevel, levels) ==
    LET levelSteps == nextLevel(stepSeq, levels)
    IN  IF Len(stepSeq) = 0 \/ currentLevel > MaxSteps + 3 THEN <<Len(levelSteps)>>
        ELSE LET levels2 == assignLevel(levels, levelSteps, currentLevel, 1)
             IN  <<Len(levelSteps)>>
                 \o levelingPasses_untilEmpty(
                        SelectSeq(stepSeq,
                                  LAMBDA step : Undefined(levels2, step.stepID)),
                        currentLevel + 1,
                        levels2)

\* The calls of calculateLevels that one leveling makes, in order: for each
\* call the number of steps that its pass levels (levelSteps.length).
RECURSIVE levelingPasses(_, _, _)
levelingPasses(stepSeq, currentLevel, levels) ==
    LET levelSteps == nextLevel(stepSeq, levels)
    IN  IF Len(levelSteps) = 0 THEN <<0>>
        ELSE LET levels2 == assignLevel(levels, levelSteps, currentLevel, 1)
             IN  <<Len(levelSteps)>>
                 \o levelingPasses(
                        SelectSeq(stepSeq,
                                  LAMBDA step : Undefined(levels2, step.stepID)),
                        currentLevel + 1,
                        levels2)

cycles(stepSeq) ==
    LET levels == calculateLevels(stepSeq, 1, EmptyObject)
    IN  SelectSeq(stepSeq, LAMBDA step : Undefined(levels, step.stepID))

(***************************************************************************)
(* checklist.ts: nextSteps                                                 *)
(***************************************************************************)
\* levels[x] < levels[y].  Two numbers compare as numbers.  Two inherited
\* values are converted to strings and compare as strings.  Every other
\* pair (undefined, or a number with an inherited value, which converts to
\* NaN) compares false.
lessLevel(levels, x, y) ==
    LET lx == Get(levels, x)
        ly == Get(levels, y)
    IN  IF lx # None /\ ly # None THEN lx[1] < ly[1]
        ELSE IF Inherited(levels, x) /\ Inherited(levels, y)
             THEN InheritedTextRank(x) < InheritedTextRank(y)
        ELSE FALSE

\* The comparator of lines 315-322.
compareLevels(levels, a, b) ==
    IF lessLevel(levels, a.stepID, b.stepID) THEN -1
    ELSE IF lessLevel(levels, b.stepID, a.stepID) THEN 1
    ELSE 0

\* Array.prototype.sort as the runtime (V8) performs it on an array of fewer
\* than 64 elements: the initial run is counted (and reversed when strictly
\* descending), the rest is inserted by binary insertion.
RECURSIVE countRun(_, _, _, _)
countRun(arr, levels, descending, idx) ==
    IF idx > Len(arr) THEN idx - 1
    ELSE LET order == compareLevels(levels, arr[idx], arr[idx - 1])
         IN  IF (descending /\ order >= 0) \/ (~descending /\ order < 0)
             THEN idx - 1
             ELSE countRun(arr, levels, descending, idx + 1)

reverseRange(arr, n) ==
    [i \in 1..Len(arr) |-> IF i <= n THEN arr[n + 1 - i] ELSE arr[i]]

\* 0-based left and right, as in the runtime; returns the 0-based slot.
RECURSIVE binarySearch(_, _, _, _, _)
binarySearch(arr, levels, pivot, left, right) ==
    IF left >= right THEN left
    ELSE LET mid == left + ((right - left) \div 2)
         IN  IF compareLevels(levels, pivot, arr[mid + 1]) < 0
             THEN binarySearch(arr, levels, pivot, left, mid)
             ELSE binarySearch(arr, levels, pivot, mid + 1, right)

RECURSIVE binaryInsertionSort(_, _, _)
binaryInsertionSort(arr, levels, start) ==
    IF start > Len(arr) THEN arr
    ELSE LET pivot == arr[start]
             left == binarySearch(arr, levels, pivot, 0, start - 1)
             moved == [i \in 1..Len(arr) |->
                          IF i = left + 1 THEN pivot
                          ELSE IF i > left + 1 /\ i <= start THEN arr[i - 1]
                          ELSE arr[i]]
         IN  binaryInsertionSort(moved, levels, start + 1)

sortByLevel(stepSeq, levels) ==
    IF Len(stepSeq) < 2 THEN stepSeq
    ELSE LET descending == compareLevels(levels, stepSeq[2], stepSeq[1]) < 0
             runLength == countRun(stepSeq, levels, descending, 3)
             made == IF descending THEN reverseRange(stepSeq, runLength)
                     ELSE stepSeq
         IN  binaryInsertionSort(made, levels, runLength + 1)

\* Lines 324-330: the dictionary of the complete steps, filled in sorted
\* order.  A complete step whose stepID is '__proto__' becomes the
\* prototype of the dictionary.
RECURSIVE collectComplete(_, _, _)
collectComplete(completeSteps, sorted, i) ==
    IF i > Len(sorted) THEN completeSteps
    ELSE collectComplete(
             IF isStepComplete(sorted[i])
             THEN Put(completeSteps, sorted[i].stepID, sorted[i])
             ELSE completeSteps,
             sorted, i + 1)

\* !!step[k], k the name of a field of a Step: a missing field, undefined,
\* false and the empty string are falsy, an array or an object is truthy.
\* params is a field of View and Method steps.
stepFieldTruthy(step, k) ==
    CASE k \in {"stepID", "stepType", "executor"} -> step[k] # ""
      [] k = "dependsOn" -> TRUE
      [] k = "params" -> step.stepType \in {"view", "method"}
      [] k = "success" -> step.success = Some(TRUE)
      [] k \in {"description", "chainID", "to", "methodABI", "calldata", "value",
                "output", "txHash", "blockNumber", "blockHash"} ->
            step[k] # None /\ step[k] # Some("")
      [] OTHER -> FALSE

\* !!completeSteps[dependencyID] (the negation of line 346): true for the
\* stepID of a complete step, for a key of Object.prototype, and for a
\* truthy field of a complete step that is the prototype.
inCompleteSteps(completeSteps, dependencyID) ==
    \/ Get(completeSteps, dependencyID) # None
    \/ Inherited(completeSteps, dependencyID)
    \/ completeSteps.proto # None
          /\ stepFieldTruthy(completeSteps.proto[1], dependencyID)

Digits == <<"0", "1", "2", "3", "4", "5", "6", "7", "8", "9">>

\* String(n) of a non-negative integer.
RECURSIVE NumberText(_)
NumberText(n) ==
    IF n < 10 THEN Digits[n + 1]
    ELSE NumberText(n \div 10) \o Digits[(n % 10) + 1]

\* The properties with string keys that an array inherits from
\* Array.prototype (ECMAScript 2023); all are functions.
ArrayPrototypeKeys ==
    {"at", "concat", "constructor", "copyWithin", "entries", "every", "fill",
     "filter", "find", "findIndex", "findLast", "findLastIndex", "flat",
     "flatMap", "forEach", "includes", "indexOf", "join", "keys", "lastIndexOf",
     "map", "pop", "push", "reduce", "reduceRight", "reverse", "shift", "slice",
     "some", "sort", "splice", "toLocaleString", "toReversed", "toSorted",
     "toSpliced", "toString", "unshift", "values", "with"}

\* String(arr[k]) of a function inherited from Array.prototype;
\* [].constructor is the function Array.
ArrayFunctionText(k) ==
    "function " \o (IF k = "constructor" THEN "Array" ELSE k)
                \o "() { [native code] }"

\* arr[k] || [] for an array of the closure, as what concat appends: an
\* element that is not the empty string, the length when it is not 0, a
\* function of Array.prototype or of Object.prototype.  The elements of a
\* closure serve as property keys only and are held as their strings.
arrayProperty(arr, k) ==
    LET at == {i \in 1..Len(arr) : NumberText(i - 1) = k}
    IN  IF at # {}
        THEN (LET e == arr[CHOOSE i \in at : TRUE]
              IN  IF e = "" THEN <<>> ELSE <<e>>)
        ELSE IF k = "length"
             THEN (IF Len(arr) = 0 THEN <<>> ELSE <<NumberText(Len(arr))>>)
        ELSE IF k \in ArrayPrototypeKeys THEN <<ArrayFunctionText(k)>>
        ELSE IF k \in ObjectPrototypeKeys THEN <<FunctionText(k)>>
        ELSE <<>>

\* transitiveDependencies[dependency] || [] (line 338), as what concat
\* appends: the closure of the dependency if it has one (an array: its
\* elements), the inherited value itself if the key is inherited (one
\* element), nothing if it is undefined.  The closure of a step whose
\* stepID is '__proto__' is the prototype of the dictionary, and the other
\* keys are looked up through it.
closureOrEmpty(td, dependency) ==
    IF Get(td, dependency) # None THEN td.own[dependency]
    ELSE IF td.proto # None
         THEN (IF dependency = "__proto__" THEN td.proto[1]
               ELSE arrayProperty(td.proto[1], dependency))
    ELSE IF dependency \in ObjectPrototypeKeys THEN <<InheritedText(dependency)>>
    ELSE <<>>

\* Lines 335-339: the closures of the direct dependencies, as far as they
\* have been computed when this step is reached, are appended.
RECURSIVE appendDependencies(_, _, _, _)
appendDependencies(td, stepID, dependsOn, j) ==
    IF j > Len(dependsOn) THEN td
    ELSE appendDependencies(
             Put(td, stepID,
                 closureOrEmpty(td, stepID) \o closureOrEmpty(td, dependsOn[j])),
             stepID, dependsOn, j + 1)

\* Lines 332-340, over the sorted steps.
RECURSIVE transitiveDependencies(_, _, _)
transitiveDependencies(td, stepSeq, i) ==
    IF i > Len(stepSeq) THEN td
    ELSE LET step == stepSeq[i]
             td1 == Put(td, step.stepID, step.dependsOn)
         IN  transitiveDependencies(
                 appendDependencies(td1, step.stepID, step.dependsOn, 1),
                 stepSeq, i + 1)

\* The arrays that a call of nextSteps works on: arrays[1] is the array
\* checklist.steps, and an array that the call creates is added at the end.
\* The elements of an array are the Step objects themselves, which the
\* call only reads.

\* A faulty copy (let steps = checklist.steps: the array itself, not a copy
\* of it): C13 must tell it from shallowCopy.
shallowCopy_sameArray(arrays, ref) == [arrays |-> arrays, ref |-> ref]

\* Line 314, [...checklist.steps]: a new array with the elements of
\* arrays[ref].
shallowCopy(arrays, ref) ==
    [arrays |-> Append(arrays, arrays[ref]), ref |-> Len(arrays) + 1]

\* Lines 315-322, steps.sort(...): Array.prototype.sort reorders the array
\* it is called on.
sortInPlace(arrays, ref, levels) ==
    [arrays EXCEPT ![ref] = sortByLevel(arrays[ref], levels)]

\* A call of nextSteps: what it returns, and checklist.steps as the call
\* leaves it.
nextStepsCall(cl) ==
    LET levels == calculateLevels(cl.steps, 1, EmptyObject)
        copy == shallowCopy(<<cl.steps>>, 1)
        arrays == sortInPlace(copy.arrays, copy.ref, levels)
        steps == arrays[copy.ref]
        completeSteps == collectComplete(EmptyObject, steps, 1)
        incompleteSteps == SelectSeq(steps, LAMBDA step : ~isStepComplete(step))
        td == transitiveDependencies(EmptyObject, steps, 1)
    IN  [returned |->
             SelectSeq(incompleteSteps, LAMBDA step :
                 LET deps == closureOrEmpty(td, step.stepID)
                 IN  \A j \in 1..Len(deps) : inCompleteSteps(completeSteps, deps[j])),
         steps |-> arrays[1]]

nextSteps(cl) == nextStepsCall(cl).returned

(***************************************************************************)
(* Steps as the model writes them.  Every step record carries every field  *)
(* of the four interfaces (lines 13-138); a field a kind does not have     *)
(* stays undefined.                                                        *)
(***************************************************************************)
StepKinds == {"manual", "view", "raw", "method"}

NewStep(stepID, stepType, dependsOn, params) ==
    [stepID |-> stepID, stepType |-> stepType, executor |-> "friend",
     description |-> None,
     dependsOn |-> dependsOn,
     chainID |-> IF stepType = "manual" THEN None ELSE Some("1"),
     to |-> IF stepType = "manual" THEN None ELSE Some("0xc0de"),
     methodABI |-> IF stepType \in {"view", "method"} THEN Some("abi") ELSE None,
     calldata |-> IF stepType = "raw" THEN Some("0xda7a") ELSE None,
     params |-> params,
     value |-> None, output |-> None, txHash |-> None, success |-> None,
     blockNumber |-> None, blockHash |-> None]

\* A step of each kind as a finished run of its executor leaves it.
Completed(step) ==
    CASE step.stepType = "manual" -> [step EXCEPT !.value = Some("42")]
      [] step.stepType = "view" ->
            [step EXCEPT !.output = Some("out"), !.blockNumber = Some("latest"),
                         !.blockHash = Some("0xb1")]
      [] step.stepType = "raw" ->
            [step EXCEPT !.txHash = Some("0xt1"), !.success = Some(TRUE)]
      [] step.stepType = "method" -> [step EXCEPT !.txHash = Some("0xt1")]

NewChecklist(stepSeq) == [requester |-> "0xdead", steps |-> stepSeq]

(***************************************************************************)
(* checklist.ts: generateExecutionContext                                  *)
(***************************************************************************)
StepResult(success, value, executing) ==
    [success |-> success, value |-> value, executing |-> executing]

\* One case of the switch of lines 372-401.
contextEntry(step) ==
    CASE step.stepType = "manual" -> StepResult(Some(TRUE), step.value, Some(FALSE))
      [] step.stepType = "view" -> StepResult(Some(TRUE), step.output, Some(FALSE))
      [] step.stepType = "raw" ->
            StepResult(IF step.success # None THEN step.success ELSE Some(FALSE),
                       step.txHash, Some(FALSE))
      [] step.stepType = "method" ->
            StepResult(IF step.success # None THEN step.success ELSE Some(FALSE),
                       step.output, Some(FALSE))

\* completeSteps.forEach: a later step overwrites the entry of an earlier
\* one with the same stepID.
RECURSIVE collectEntries(_, _, _)
collectEntries(ctx, completeSteps, i) ==
    IF i > Len(completeSteps) THEN ctx
    ELSE collectEntries(
             Put(ctx, completeSteps[i].stepID, contextEntry(completeSteps[i])),
             completeSteps, i + 1)

generateExecutionContext(cl) ==
    collectEntries(EmptyObject, SelectSeq(cl.steps, isStepComplete), 1)

(***************************************************************************)
(* Parameter templates.  A template is a sequence of parts: literal text   *)
(* or a mustache {{stepID.field}}.  Handlebars (not in strict mode)        *)
(* renders a path that does not resolve as the empty string, a boolean as  *)
(* "true" or "false", and any other value as its HTML-escaped string.      *)
(***************************************************************************)
Lit(text) == [kind |-> "lit", text |-> text, stepID |-> "", field |-> ""]

Ref(stepID, field) == [kind |-> "ref", text |-> "", stepID |-> stepID, field |-> field]

\* The string Handlebars emits for a defined value: the value's string,
\* with the characters & < > " ' ` = replaced by their HTML entities.
HandlebarsText(v) ==
    CASE v = "errorJSON" -> "[object Object]"
      [] v = "<42>" -> "&lt;42&gt;"
      [] OTHER -> v

\* executionContext[stepID][field], undefined when either is missing.
resolve(ctx, part) ==
    LET entry == Get(ctx, part.stepID)
    IN  IF entry = None THEN None
        ELSE IF part.field \notin DOMAIN entry[1] THEN None
        ELSE entry[1][part.field]

renderPart(ctx, part) ==
    IF part.kind = "lit" THEN part.text
    ELSE LET v == resolve(ctx, part)
         IN  IF v = None THEN ""
             ELSE IF part.field \in {"success", "executing"}
                  THEN (IF v[1] THEN "true" ELSE "false")
             ELSE HandlebarsText(v[1])

RECURSIVE renderTemplate(_, _, _)
renderTemplate(ctx, template, k) ==
    IF k > Len(template) THEN ""
    ELSE renderPart(ctx, template[k]) \o renderTemplate(ctx, template, k + 1)

\* The loops of lines 152-156 and 245-249.
renderParams(ctx, params) ==
    [p \in 1..Len(params) |-> renderTemplate(ctx, params[p], 1)]

\* Some mustache of the parameters names a stepID or a field that the
\* context does not hold.
Unresolved(ctx, params) ==
    \E p \in 1..Len(params) : \E k \in 1..Len(params[p]) :
       params[p][k].kind = "ref" /\ resolve(ctx, params[p][k]) = None

(***************************************************************************)
(* completers.ts: what the executors share.  Every call of an action is a  *)
(* run; the runs are listed step by step and, for one step, in the order   *)
(* of the calls, and runs[r] is the position in checklist.steps of the     *)
(* step that run r executes.  A step's action may be called again at any   *)
(* time, also while an earlier run of the same step is awaiting the        *)
(* client.                                                                 *)
(***************************************************************************)
InFlightMarker == StepResult(None, None, Some(TRUE))

\* if (executionContext[step.stepID] === undefined) { ... = {executing: true} }
\* The context is an object literal: for a stepID that is a key of
\* Object.prototype the value read is the inherited one, not undefined,
\* also when the context has no entry for the step.
markInFlight(ctx, stepID) ==
    IF Undefined(ctx, stepID) THEN Put(ctx, stepID, InFlightMarker) ELSE ctx

Effect(name, detail) == [eff |-> name, detail |-> detail]

MarkEffect(ctx, stepID) ==
    IF Undefined(ctx, stepID) THEN <<Effect("context.marker", <<>>)>> ELSE <<>>

\* web3 is the chain client the caller passes: the identifier of the chain
\* it is connected to is what its getChainId answers.
EmptyLocals ==
    [web3 |-> None, blockNumber |-> None, userTxConfig |-> None, chainID |-> None,
     args |-> None, unresolved |-> FALSE, block |-> None, signed |-> None]

\* Run r is awaiting the client.
InFlight(r) == pc[r] \in {"getChainId", "getBlock", "call", "sign", "send", "awaitTx"}

\* Run r may still write: it is awaiting the client, or a handler of its
\* submission may still be called.
Live(r) == InFlight(r) \/ tx[r] \in {"pending", "hashed"}

\* What a run finds when it begins: its step, the step's context entry,
\* and whether no earlier run of the same step may still write.
Snapshot(i, step, ctx) ==
    [step |-> step, entry |-> Get(ctx, step.stepID),
     alone |-> \A q \in 1..Len(runs) : runs[q] = i => ~Live(q)]

\* How many times an action has been called, over all the steps.
TotalRuns == Len(runs)

\* The action of step i may be called: the callers have calls left.
Callable(i) ==
    /\ i \in 1..Len(checklist.steps)
    /\ TotalRuns < MaxRuns

\* Where the new run of step i is listed: after the runs of the steps up
\* to i.
Slot(i) == 1 + Cardinality({q \in 1..Len(runs) : runs[q] <= i})

Insert(seq, p, v) ==
    [n \in 1..(Len(seq) + 1) |->
        IF n < p THEN seq[n] ELSE IF n = p THEN v ELSE seq[n - 1]]

\* The bookkeeping of a call of the action of step i: a new run.
Begin(i, step, locals, where, effects) ==
    /\ pc' = Insert(pc, Slot(i), where)
    /\ err' = Insert(err, Slot(i), "none")
    /\ loc' = Insert(loc, Slot(i), locals)
    /\ tx' = Insert(tx, Slot(i), "none")
    /\ trace' = Insert(trace, Slot(i), MarkEffect(context, step.stepID) \o effects)
    /\ snap' = Insert(snap, Slot(i), Snapshot(i, step, context))
    /\ runs' = Insert(runs, Slot(i), i)

\* The run that this step of the behaviour begins, when it begins one: the
\* last of the runs of its step.
NewRun ==
    CHOOSE p \in 1..Len(runs') :
       /\ runs' = Insert(runs, p, runs'[p])
       /\ (p = Len(runs') \/ runs'[p + 1] # runs'[p])

\* Where run r of this state is listed in the next state, and where run r
\* of the next state is listed in this one.
Later(r) == IF runs' = runs \/ r < NewRun THEN r ELSE r + 1

Earlier(r) == IF runs' = runs \/ r < NewRun THEN r ELSE r - 1

\* A faulty rejection (the failure is caught and recorded in the context):
\* C9 must tell it from Reject.
Reject_recordFailure(r, reason) ==
    /\ pc' = [pc EXCEPT ![r] = "failed"]
    /\ err' = [err EXCEPT ![r] = reason]
    /\ context' = Put(context, checklist.steps[runs[r]].stepID,
                      StepResult(Some(FALSE), None, Some(FALSE)))
    /\ trace' = [trace EXCEPT ![r] = @ \o <<Effect("context.terminal", <<>>)>>]
    /\ UNCHANGED <<checklist, tx, snap, runs, ret>>

\* A throw, or the rejection of an awaited call, rejects the action's
\* promise: nothing after it runs.  (The caller states loc'.)
Reject(r, reason) ==
    /\ pc' = [pc EXCEPT ![r] = "failed"]
    /\ err' = [err EXCEPT ![r] = reason]
    /\ UNCHANGED <<checklist, context, tx, trace, snap, runs, ret>>

\* A faulty chain check (none): C6 must tell it from chainMismatch.
chainMismatch_never(chainID, step) == FALSE

\* chainID !== step.chainID
chainMismatch(chainID, step) == Some(chainID) # step.chainID

(***************************************************************************)
(* What the callers and the chain client supply.                           *)
(***************************************************************************)
InputValues == {"42", "<42>"}

BlockReferences == {"latest"}

UserTxConfigs == {None, Some("gas")}

\* The chains a client may be connected to; web3.eth.getChainId() answers
\* with the identifier of the client's chain.
LiveChainIDs == {"1", "5"}

\* web3.eth.getBlock(blockNumber): number and hash (null for a pending block).
Blocks == {[number |-> "7", hash |-> Some("0xb7")], [number |-> "7", hash |-> None]}

CallResults == {"out"}

SignedTransactions == {"0xsigned"}

TransactionHashes == {"0xt1"}

SubmissionErrors == {"errorJSON"}

(***************************************************************************)
(* completers.ts: completeInputStep (lines 105-117).  The action awaits    *)
(* nothing: it runs to its end when it is called.                          *)
(***************************************************************************)
inputTerminalEntry(value) == StepResult(Some(TRUE), Some(value), Some(FALSE))

completeInputStep ==
    \E i \in 1..Len(checklist.steps), value \in InputValues :
        LET step == checklist.steps[i]
        IN  /\ Callable(i)
            /\ step.stepType = "manual"
            /\ checklist' = [checklist EXCEPT !.steps[i].value = Some(value)]
            /\ context' = Put(markInFlight(context, step.stepID), step.stepID,
                              inputTerminalEntry(value))
            /\ Begin(i, step, EmptyLocals, "done",
                     <<Effect("step.value", <<value>>), Effect("context.terminal", <<>>)>>)
            /\ UNCHANGED ret

(***************************************************************************)
(* completers.ts: completeViewStep (lines 222-267).  The action is cut at  *)
(* its awaits: getChainId, getBlock, call.                                 *)
(***************************************************************************)
\* Lines 226-231: the marker, then web3.eth.getChainId() is issued.
completeViewStep_call ==
    \E i \in 1..Len(checklist.steps), web3 \in LiveChainIDs,
       blockNumber \in BlockReferences :
        LET step == checklist.steps[i]
        IN  /\ Callable(i)
            /\ step.stepType = "view"
            /\ context' = markInFlight(context, step.stepID)
            /\ Begin(i, step, [EmptyLocals EXCEPT !.web3 = Some(web3),
                                                  !.blockNumber = Some(blockNumber)],
                     "getChainId", <<Effect("getChainId", <<>>)>>)
            /\ UNCHANGED <<checklist, ret>>

\* Lines 231-254: the chain check, the parameters, web3.eth.getBlock is issued.
completeViewStep_chainID ==
    \E r \in 1..Len(runs) :
        LET step == checklist.steps[runs[r]]
        IN  /\ step.stepType = "view"
            /\ pc[r] = "getChainId"
            /\ \/ Reject(r, "client") /\ UNCHANGED loc
               \/ LET chainID == loc[r].web3[1]
                         seen == [loc[r] EXCEPT !.chainID = Some(chainID)]
                         rendered == [seen EXCEPT
                                         !.args = Some(renderParams(context, step.params)),
                                         !.unresolved = Unresolved(context, step.params)]
                     IN  IF chainMismatch(chainID, step)
                         THEN Reject(r, "chain") /\ loc' = [loc EXCEPT ![r] = seen]
                         ELSE \/ Reject(r, "abi") /\ loc' = [loc EXCEPT ![r] = rendered]
                              \/ /\ loc' = [loc EXCEPT ![r] = rendered]
                                 /\ pc' = [pc EXCEPT ![r] = "getBlock"]
                                 /\ trace' = [trace EXCEPT ![r] =
                                       @ \o <<Effect("getBlock", <<loc[r].blockNumber[1]>>)>>]
                                 /\ UNCHANGED <<checklist, context, err, tx, snap, runs, ret>>

\* Lines 254-255: the block is known, methodTransaction.call is issued at
\* block.number.
completeViewStep_block ==
    \E r \in 1..Len(runs) :
        LET step == checklist.steps[runs[r]]
        IN  /\ step.stepType = "view"
            /\ pc[r] = "getBlock"
            /\ \/ Reject(r, "client") /\ UNCHANGED loc
               \/ \E block \in Blocks :
                     /\ loc' = [loc EXCEPT ![r].block = Some(block)]
                     /\ pc' = [pc EXCEPT ![r] = "call"]
                     /\ trace' = [trace EXCEPT ![r] =
                           @ \o <<Effect("call", loc[r].args[1] \o <<block.number>>)>>]
                     /\ UNCHANGED <<checklist, context, err, tx, snap, runs, ret>>

viewTerminalEntry(step) == StepResult(Some(TRUE), step.output, Some(FALSE))

\* Lines 255-265: the result is recorded in the step and in the context.
completeViewStep_result ==
    \E r \in 1..Len(runs) :
        LET step == checklist.steps[runs[r]]
        IN  /\ step.stepType = "view"
            /\ pc[r] = "call"
            /\ \/ Reject(r, "client") /\ UNCHANGED loc
               \/ \E result \in CallResults :
                     LET block == loc[r].block[1]
                         done == [step EXCEPT
                                     !.output = Some(result),
                                     !.blockNumber = loc[r].blockNumber,
                                     !.blockHash = IF block.hash # None THEN block.hash
                                                   ELSE Some("unknown")]
                     IN  /\ checklist' = [checklist EXCEPT !.steps[runs[r]] = done]
                         /\ context' = Put(context, step.stepID, viewTerminalEntry(done))
                         /\ pc' = [pc EXCEPT ![r] = "done"]
                         /\ trace' = [trace EXCEPT ![r] =
                               @ \o <<Effect("step.output", <<result>>),
                                      Effect("context.terminal", <<>>)>>]
                         /\ UNCHANGED <<err, loc, tx, snap, runs, ret>>

(***************************************************************************)
(* completers.ts: completeRawStep (lines 180-220).  The action is cut at   *)
(* its awaits: signTransaction, sendSignedTransaction.                     *)
(***************************************************************************)
\* A faulty Raw executor (it refuses a client that is on another chain, as
\* the View and Method executors do): C20 must tell it from
\* completeRawStep_call.
completeRawStep_call_checkChain ==
    \E i \in 1..Len(checklist.steps), web3 \in LiveChainIDs,
       userTxConfig \in UserTxConfigs :
        LET step == checklist.steps[i]
            wrong == Some(web3) # step.chainID
        IN  /\ Callable(i)
            /\ step.stepType = "raw"
            /\ context' = markInFlight(context, step.stepID)
            /\ pc' = Insert(pc, Slot(i), IF wrong THEN "failed" ELSE "sign")
            /\ err' = Insert(err, Slot(i), IF wrong THEN "chain" ELSE "none")
            /\ loc' = Insert(loc, Slot(i), [EmptyLocals EXCEPT !.web3 = Some(web3),
                                                      !.userTxConfig = userTxConfig])
            /\ tx' = Insert(tx, Slot(i), "none")
            /\ trace' = Append(trace,
                  MarkEffect(context, step.stepID)
                  \o (IF wrong THEN <<>>
                      ELSE <<Effect("signTransaction", step.chainID \o userTxConfig)>>))
            /\ snap' = Insert(snap, Slot(i), Snapshot(i, step, context))
            /\ runs' = Insert(runs, Slot(i), i)
            /\ UNCHANGED <<checklist, ret>>

\* Lines 188-209: the marker, the transaction (step.chainID, the caller's
\* overrides merged over it), web3.eth.signTransaction is issued.
completeRawStep_call ==
    \E i \in 1..Len(checklist.steps), web3 \in LiveChainIDs,
       userTxConfig \in UserTxConfigs :
        LET step == checklist.steps[i]
        IN  /\ Callable(i)
            /\ step.stepType = "raw"
            /\ context' = markInFlight(context, step.stepID)
            /\ Begin(i, step, [EmptyLocals EXCEPT !.web3 = Some(web3),
                                                  !.userTxConfig = userTxConfig],
                     "sign",
                     <<Effect("signTransaction", step.chainID \o userTxConfig)>>)
            /\ UNCHANGED <<checklist, ret>>

\* Lines 209-210: the signed transaction is broadcast.
completeRawStep_signed ==
    \E r \in 1..Len(runs) :
        LET step == checklist.steps[runs[r]]
        IN  /\ step.stepType = "raw"
            /\ pc[r] = "sign"
            /\ \/ Reject(r, "client") /\ UNCHANGED loc
               \/ \E signed \in SignedTransactions :
                     /\ loc' = [loc EXCEPT ![r].signed = Some(signed)]
                     /\ pc' = [pc EXCEPT ![r] = "send"]
                     /\ trace' = [trace EXCEPT ![r] =
                           @ \o <<Effect("sendSignedTransaction", <<signed>>)>>]
                     /\ UNCHANGED <<checklist, context, err, tx, snap, runs, ret>>

rawTerminalEntry(step) == StepResult(Some(TRUE), None, Some(FALSE))

\* Lines 210-218: the hash and the success are recorded.
completeRawStep_sent ==
    \E r \in 1..Len(runs) :
        LET step == checklist.steps[runs[r]]
        IN  /\ step.stepType = "raw"
            /\ pc[r] = "send"
            /\ \/ Reject(r, "client") /\ UNCHANGED loc
               \/ \E txHash \in TransactionHashes :
                     LET done == [step EXCEPT !.txHash = Some(txHash),
                                              !.success = Some(TRUE)]
                     IN  /\ checklist' = [checklist EXCEPT !.steps[runs[r]] = done]
                         /\ context' = Put(context, step.stepID, rawTerminalEntry(done))
                         /\ pc' = [pc EXCEPT ![r] = "done"]
                         /\ trace' = [trace EXCEPT ![r] =
                               @ \o <<Effect("step.txHash", <<txHash>>),
                                      Effect("context.terminal", <<>>)>>]
                         /\ UNCHANGED <<err, loc, tx, snap, runs, ret>>

(***************************************************************************)
(* completers.ts: completeMethodStep (lines 119-178).  The action is cut   *)
(* at its awaits: getChainId, and "await methodTransaction".  What is      *)
(* awaited there is the method object of contract.methods, not the         *)
(* promise that send returned: the await yields once and resumes without   *)
(* waiting for the client.  Each send registers its own pair of handlers,  *)
(* once("transactionHash") and on("error"); they run when the client       *)
(* reports on that submission, whenever that is.  tx[r] is the submission  *)
(* of run r.  The sender and the caller's options go to send as they are   *)
(* given and are not part of the state.                                    *)
(***************************************************************************)
\* Lines 127-132.
completeMethodStep_call ==
    \E i \in 1..Len(checklist.steps), web3 \in LiveChainIDs :
        LET step == checklist.steps[i]
        IN  /\ Callable(i)
            /\ step.stepType = "method"
            /\ context' = markInFlight(context, step.stepID)
            /\ Begin(i, step, [EmptyLocals EXCEPT !.web3 = Some(web3)],
                     "getChainId", <<Effect("getChainId", <<>>)>>)
            /\ UNCHANGED <<checklist, ret>>

\* Lines 132-170: the chain check, the parameters, send is issued and the
\* two handlers are registered.
completeMethodStep_chainID ==
    \E r \in 1..Len(runs) :
        LET step == checklist.steps[runs[r]]
        IN  /\ step.stepType = "method"
            /\ pc[r] = "getChainId"
            /\ \/ Reject(r, "client") /\ UNCHANGED loc
               \/ LET chainID == loc[r].web3[1]
                         seen == [loc[r] EXCEPT !.chainID = Some(chainID)]
                         rendered == [seen EXCEPT
                                         !.args = Some(renderParams(context, step.params)),
                                         !.unresolved = Unresolved(context, step.params)]
                     IN  IF chainMismatch(chainID, step)
                         THEN Reject(r, "chain") /\ loc' = [loc EXCEPT ![r] = seen]
                         ELSE \/ Reject(r, "abi") /\ loc' = [loc EXCEPT ![r] = rendered]
                              \/ /\ loc' = [loc EXCEPT ![r] = rendered]
                                 /\ pc' = [pc EXCEPT ![r] = "awaitTx"]
                                 /\ tx' = [tx EXCEPT ![r] = "pending"]
                                 /\ trace' = [trace EXCEPT ![r] =
                                       @ \o <<Effect("send", rendered.args[1])>>]
                                 /\ UNCHANGED <<checklist, context, err, snap, runs, ret>>

\* A faulty terminal write (the in-flight marker is written again): C25
\* must tell it from methodTerminalEntry.
methodTerminalEntry_keepMarker(step) == InFlightMarker

\* { success: true, value: step.output, executing: false }
methodTerminalEntry(step) == StepResult(Some(TRUE), step.output, Some(FALSE))

\* Lines 170-176: the await has yielded; the terminal entry is written.
completeMethodStep_resume ==
    \E r \in 1..Len(runs) :
        LET step == checklist.steps[runs[r]]
        IN  /\ step.stepType = "method"
            /\ pc[r] = "awaitTx"
            /\ context' = Put(context, step.stepID, methodTerminalEntry(step))
            /\ pc' = [pc EXCEPT ![r] = "done"]
            /\ trace' = [trace EXCEPT ![r] = @ \o <<Effect("context.terminal", <<>>)>>]
            /\ UNCHANGED <<checklist, err, loc, tx, snap, runs, ret>>

\* Lines 163-165: the client reports the hash of the transaction that run r
\* submitted.
onTransactionHash ==
    \E r \in 1..Len(runs) :
        /\ tx[r] = "pending"
        /\ \E hash \in TransactionHashes :
              /\ checklist' = [checklist EXCEPT !.steps[runs[r]].txHash = Some(hash)]
              /\ trace' = [trace EXCEPT ![r] = @ \o <<Effect("step.txHash", <<hash>>)>>]
        /\ tx' = [tx EXCEPT ![r] = "hashed"]
        /\ UNCHANGED <<context, pc, err, loc, snap, runs, ret>>

\* Lines 166-168: the client reports that the submission of run r failed,
\* before or after it reported a hash.
onError ==
    \E r \in 1..Len(runs) :
        /\ tx[r] \in {"pending", "hashed"}
        /\ \E error \in SubmissionErrors :
              /\ checklist' = [checklist EXCEPT !.steps[runs[r]].output = Some(error)]
              /\ trace' = [trace EXCEPT ![r] = @ \o <<Effect("step.output", <<error>>)>>]
        /\ tx' = [tx EXCEPT ![r] = "errored"]
        /\ UNCHANGED <<context, pc, err, loc, snap, runs, ret>>

(***************************************************************************)
(* The executors at work: a checklist of two fresh steps, a and b <- a, of *)
(* any two kinds; a View or Method step has a literal parameter, and b may *)
(* have a second one that takes the value of a from the context.           *)
(* The context starts as generateExecutionContext gives it for the fresh   *)
(* checklist: empty.  Any action may be called at any time, also while     *)
(* another run, of the other step or of the same step, is in flight.       *)
(***************************************************************************)
LiteralParams(stepType) ==
    IF stepType \in {"view", "method"} THEN << <<Lit("7")>> >> ELSE <<>>

ParamChoices(stepType, other) ==
    IF stepType \in {"view", "method"}
    THEN {LiteralParams(stepType),
          << <<Lit("7")>>, <<Lit("0x"), Ref(other, "value")>> >>}
    ELSE {<<>>}

\* The functions of checklist.ts that a caller evaluates; none of them has
\* been called.
NoCall ==
    [cycles |-> None, nextSteps |-> None, generateExecutionContext |-> None,
     checkStepIDs |-> None, isStepComplete |-> None, calculateLevels |-> None]

\* f has been called, and what its last call returned.
Called(f) == ret[f] # None

Result(f) == ret[f][1]

\* No action has been called yet.
NoRuns ==
    /\ pc = <<>>
    /\ err = <<>>
    /\ loc = <<>>
    /\ tx = <<>>
    /\ trace = <<>>
    /\ snap = <<>>
    /\ runs = <<>>

Init ==
    /\ \E k1, k2 \in StepKinds :
          \E p1 \in {LiteralParams(k1)}, p2 \in ParamChoices(k2, "a") :
             checklist = NewChecklist(<<NewStep("a", k1, <<>>, p1),
                                        NewStep("b", k2, <<"a">>, p2)>>)
    /\ context = generateExecutionContext(checklist)
    /\ NoRuns
    /\ ret = NoCall

Next ==
    \/ completeInputStep
    \/ completeViewStep_call
    \/ completeViewStep_chainID
    \/ completeViewStep_block
    \/ completeViewStep_result
    \/ completeRawStep_call
    \/ completeRawStep_signed
    \/ completeRawStep_sent
    \/ completeMethodStep_call
    \/ completeMethodStep_chainID
    \/ completeMethodStep_resume
    \/ onTransactionHash
    \/ onError

Spec == Init /\ [][Next]_vars

(***************************************************************************)
(* The inputs of the pure functions: every step list of at most MaxSteps   *)
(* steps named a, b, c, ... in input order, whose dependsOn lists name     *)
(* any of the first MaxSteps names (a name no step has is a dangling       *)
(* reference) with at most MaxEdges entries in all, and every choice of    *)
(* the steps that are complete; and the step lists of the test suite.      *)
(***************************************************************************)
IDNames == <<"a", "b", "c", "d", "e", "f", "g">>

KindNames == <<"manual", "view", "method", "raw">>

KindAt(i) == KindNames[((i - 1) % 4) + 1]

GraphIDs == {IDNames[i] : i \in 1..MaxSteps}

SeqOfIDs(S) == SelectSeq(IDNames, LAMBDA x : x \in S)

RECURSIVE SumCard(_, _)
SumCard(f, n) == IF n = 0 THEN 0 ELSE Cardinality(f[n]) + SumCard(f, n - 1)

GraphSteps(n, deps, done, kinds) ==
    [i \in 1..n |->
        LET fresh == NewStep(IDNames[i], kinds[i], SeqOfIDs(deps[i]), <<>>)
        IN  IF i \in done THEN Completed(fresh) ELSE fresh]

AllManual(n) == [i \in 1..n |-> "manual"]

MixedKinds(n) == [i \in 1..n |-> KindAt(i)]

\* src/src/test/checklist.ts: the linear checklist a <- b <- c of the
\* nextSteps tests, with any of its steps complete.
Chain3(done) ==
    GraphSteps(3, <<{}, {"a"}, {"b"}>>, done, AllManual(3))

\* src/src/test/checklist.ts: "detects complex cycles in checklist steps".
Graph7 ==
    GraphSteps(7, <<{}, {"a"}, {"b"}, {"a"}, {"d", "f"}, {"d", "g"}, {"d", "e"}>>,
               {}, AllManual(7))

EnumeratedInput ==
    \E n \in 1..MaxSteps :
       \E deps \in [1..n -> SUBSET GraphIDs] :
          /\ SumCard(deps, n) <= MaxEdges
          /\ \E done \in SUBSET (1..n) :
                checklist = NewChecklist(GraphSteps(n, deps, done, MixedKinds(n)))

TestSuiteInput ==
    \/ \E done \in SUBSET (1..3) : checklist = NewChecklist(Chain3(done))
    \/ checklist = NewChecklist(Graph7)

\* One step of any kind with any of its result fields recorded, as a
\* checklist read from a file may hold it.
RecordedInput ==
    \E kind \in StepKinds :
       \E value \in {None, Some("42")}, output \in {None, Some("out")},
          txHash \in {None, Some("0xt1")}, success \in {None, Some(TRUE), Some(FALSE)} :
          checklist = NewChecklist(
              <<[NewStep("a", kind, <<>>, <<>>) EXCEPT
                    !.value = value, !.output = output,
                    !.txHash = txHash, !.success = success]>>)

\* Fresh step lists whose stepIDs and dependsOn entries are any of a few
\* names: a stepID may repeat, and a name may be a key of Object.prototype.
InputNames == <<"a", "b", "toString">>

SeqOfNames(S) == SelectSeq(InputNames, LAMBDA x : x \in S)

NamedInput ==
    \E n \in 1..(MaxSteps - 1) :
       \E ids \in [1..n -> Range(InputNames)], deps \in [1..n -> SUBSET Range(InputNames)] :
          /\ SumCard(deps, n) <= MaxEdges
          /\ checklist = NewChecklist(
                 [i \in 1..n |-> NewStep(ids[i], KindAt(i), SeqOfNames(deps[i]), <<>>)])

\* Step lists of one or two Manual steps, any of them complete, whose
\* stepIDs are an ordinary name, keys of Object.prototype or the strings
\* that inherited values convert to, and each of whose dependsOn lists is
\* empty or names an ordinary name, a key of Object.prototype, a field of
\* a Step or a property of an array.
PrototypeIDs ==
    {"a", "__proto__", "toString", "valueOf", FunctionText("toString"),
     FunctionText("constructor")}

PrototypeDependencies ==
    {<<>>, <<"a">>, <<"__proto__">>, <<"toString">>, <<"constructor">>,
     <<"stepID">>, <<"0">>, <<"length">>}

PrototypeInput ==
    \E n \in 1..2 :
       \E ids \in [1..n -> PrototypeIDs], deps \in [1..n -> PrototypeDependencies],
          done \in SUBSET (1..n) :
          checklist = NewChecklist(
              [i \in 1..n |->
                  LET fresh == NewStep(ids[i], "manual", deps[i], <<>>)
                  IN  IF i \in done THEN Completed(fresh) ELSE fresh])

\* A step that depends on itself between a second-level step, whose
\* dependency is complete, and a first-level step: a <- d, b <- b, c, d.
SelfLoopBetweenLevels ==
    GraphSteps(4, <<{"d"}, {"b"}, {}, {}>>, {4}, AllManual(4))

\* No executor runs; snap keeps the steps as they were given.
Quiet(stepSeq) ==
    /\ context = EmptyObject
    /\ pc = <<>>
    /\ err = <<>>
    /\ loc = <<>>
    /\ tx = <<>>
    /\ trace = <<>>
    /\ snap = [i \in 1..Len(stepSeq) |->
                  [step |-> stepSeq[i], entry |-> None, alone |-> TRUE]]
    /\ runs = <<>>

GraphInit ==
    /\ \/ EnumeratedInput
       \/ TestSuiteInput
       \/ RecordedInput
       \/ NamedInput
       \/ PrototypeInput
       \/ checklist = NewChecklist(SelfLoopBetweenLevels)
    /\ Quiet(checklist.steps)
    /\ ret = NoCall

\* cycles, nextSteps and generateExecutionContext are what a caller of the
\* workflow evaluates, in any order and any number of times: each call
\* works on the checklist as the calls before it have left it.  Of
\* checkStepIDs, isStepComplete and calculateLevels the model looks at one
\* call on the given checklist.
Readers == {"cycles", "nextSteps", "generateExecutionContext"}

OnlyReaders == \A f \in (DOMAIN ret) \ Readers : ~Called(f)

\* A caller evaluates cycles(checklist.steps): filter, every and for-of
\* read the array, and push adds to the array that nextLevel has created.
CallCycles ==
    /\ OnlyReaders
    /\ ret' = [ret EXCEPT !.cycles = Some(cycles(checklist.steps))]
    /\ UNCHANGED <<checklist, context, pc, err, loc, tx, trace, snap, runs>>

\* A caller evaluates nextSteps(checklist).
CallNextSteps ==
    /\ OnlyReaders
    /\ \E call \in {nextStepsCall(checklist)} :
          /\ ret' = [ret EXCEPT !.nextSteps = Some(call.returned)]
          /\ checklist' = [checklist EXCEPT !.steps = call.steps]
    /\ UNCHANGED <<context, pc, err, loc, tx, trace, snap, runs>>

\* A caller evaluates generateExecutionContext(checklist): filter and
\* forEach read the array, and the entries are new objects.
CallGenerateExecutionContext ==
    /\ OnlyReaders
    /\ ret' = [ret EXCEPT !.generateExecutionContext =
                              Some(generateExecutionContext(checklist))]
    /\ UNCHANGED <<checklist, context, pc, err, loc, tx, trace, snap, runs>>

\* A caller evaluates checkStepIDs(checklist).
CallCheckStepIDs ==
    /\ ret = NoCall
    /\ ret' = [ret EXCEPT !.checkStepIDs = Some(checkStepIDs(checklist))]
    /\ UNCHANGED <<checklist, context, pc, err, loc, tx, trace, snap, runs>>

\* A caller evaluates isStepComplete(checklist.steps[i]).
CallIsStepComplete ==
    \E i \in 1..Len(checklist.steps) :
       /\ ret = NoCall
       /\ ret' = [ret EXCEPT !.isStepComplete =
                                Some(<<i, isStepComplete(checklist.steps[i])>>)]
       /\ UNCHANGED <<checklist, context, pc, err, loc, tx, trace, snap, runs>>

\* cycles and nextSteps level the steps: calculateLevels(steps, 1, levels)
\* on an empty levels object (lines 232-233, 310-311).
CallCalculateLevels ==
    /\ ret = NoCall
    /\ ret' = [ret EXCEPT !.calculateLevels =
                             Some(calculateLevels(checklist.steps, 1, EmptyObject))]
    /\ UNCHANGED <<checklist, context, pc, err, loc, tx, trace, snap, runs>>

GraphNext ==
    \/ CallCycles
    \/ CallNextSteps
    \/ CallGenerateExecutionContext
    \/ CallCheckStepIDs
    \/ CallIsStepComplete
    \/ CallCalculateLevels

SpecGraph == GraphInit /\ [][GraphNext]_vars

(***************************************************************************)
(* A caller that drives a checklist the way the workflow prescribes: it    *)
(* starts from a fresh checklist, recomputes nextSteps(checklist) whenever *)
(* it is about to execute, and calls the executor of a step only if        *)
(* nextSteps returned that step.  The executors are the actions above,     *)
(* with their awaits, failures and callbacks; several may be in flight.    *)
(* The checklists have one or two steps with distinct stepIDs among the    *)
(* InputNames, any of these names in their dependsOn lists, and kinds that *)
(* follow KindNames from any starting point.                               *)
(***************************************************************************)
DriveSteps(ids, deps, shift) ==
    [i \in 1..Len(ids) |->
        NewStep(ids[i], KindAt(i + shift), SeqOfNames(deps[i]),
                IF KindAt(i + shift) \in {"view", "method"}
                THEN << <<Lit("7")>> >> ELSE <<>>)]

DriveIDs ==
    {<<x>> : x \in Range(InputNames)}
    \cup {<<p[1], p[2]>> : p \in {q \in Range(InputNames) \X Range(InputNames) :
                                     q[1] # q[2]}}

DriveInit ==
    /\ \E ids \in DriveIDs, shift \in 0..(Len(KindNames) - 1) :
          \E deps \in [1..Len(ids) -> SUBSET Range(InputNames)] :
             /\ SumCard(deps, Len(ids)) <= MaxEdges
             /\ checklist = NewChecklist(DriveSteps(ids, deps, shift))
    /\ context = generateExecutionContext(checklist)
    /\ NoRuns
    /\ ret = NoCall

\* The caller found checklist.steps[i] in nextSteps(checklist).
Returned(i) == checklist.steps[i] \in Range(nextSteps(checklist))

\* The action that this step of the behaviour has called belongs to a step
\* that nextSteps returned.
OnlyReturned == runs' # runs => Returned(runs'[NewRun])

Drive_completeInputStep == completeInputStep /\ OnlyReturned

Drive_completeViewStep == completeViewStep_call /\ OnlyReturned

Drive_completeRawStep == completeRawStep_call /\ OnlyReturned

Drive_completeMethodStep == completeMethodStep_call /\ OnlyReturned

DriveNext ==
    \/ Drive_completeInputStep
    \/ Drive_completeViewStep
    \/ completeViewStep_chainID
    \/ completeViewStep_block
    \/ completeViewStep_result
    \/ Drive_completeRawStep
    \/ completeRawStep_signed
    \/ completeRawStep_sent
    \/ Drive_completeMethodStep
    \/ completeMethodStep_chainID
    \/ completeMethodStep_resume
    \/ onTransactionHash
    \/ onError

SpecDrive == DriveInit /\ [][DriveNext]_vars

(***************************************************************************)
(* The dependency graph of a step list, for stating the properties.        *)
(***************************************************************************)
DirectDeps(stepSeq, ids) ==
    UNION {Range(stepSeq[i].dependsOn) :
              i \in {k \in 1..Len(stepSeq) : stepSeq[k].stepID \in ids}}

RECURSIVE ReachFrom(_, _)
ReachFrom(stepSeq, ids) ==
    LET more == ids \cup DirectDeps(stepSeq, ids)
    IN  IF more = ids THEN ids ELSE ReachFrom(stepSeq, more)

\* Every stepID that stepID depends on, directly or transitively.
AllDeps(stepSeq, stepID) == ReachFrom(stepSeq, DirectDeps(stepSeq, {stepID}))

OnCycle(stepSeq, stepID) == stepID \in AllDeps(stepSeq, stepID)

Acyclic(stepSeq) == \A i \in 1..Len(stepSeq) : ~OnCycle(stepSeq, stepSeq[i].stepID)

CompleteIDs(stepSeq) ==
    {stepSeq[i].stepID : i \in {k \in 1..Len(stepSeq) : isStepComplete(stepSeq[k])}}

ReadyIDs(stepSeq) ==
    {stepSeq[i].stepID :
        i \in {k \in 1..Len(stepSeq) :
                  /\ ~isStepComplete(stepSeq[k])
                  /\ AllDeps(stepSeq, stepSeq[k].stepID) \subseteq CompleteIDs(stepSeq)}}

NoRepeats(seq) == \A i, j \in 1..Len(seq) : seq[i] = seq[j] => i = j

(***************************************************************************)
(* C1: for a checklist that passes checkStepIDs and whose dependsOn graph  *)
(* is acyclic, whatever steps are complete, nextSteps returns exactly the  *)
(* incomplete steps all of whose transitive dependencies are complete,     *)
(* each once; on the chain a <- b <- c with only b complete it returns     *)
(* only a.                                                                 *)
(***************************************************************************)
C1_NextStepsExact ==
    (Called("nextSteps") /\ checkStepIDs(checklist) /\ Acyclic(checklist.steps))
    => /\ Range(StepIDsOf(Result("nextSteps"))) = ReadyIDs(checklist.steps)
       /\ NoRepeats(StepIDsOf(Result("nextSteps")))
       /\ Range(Result("nextSteps")) \subseteq Range(checklist.steps)
       /\ (checklist.steps = Chain3({2}) => StepIDsOf(Result("nextSteps")) = <<"a">>)

(***************************************************************************)
(* C2: a step that depends on itself, directly or transitively, is never   *)
(* in the output of nextSteps, whatever steps are complete.                *)
(***************************************************************************)
C2_CyclicStepNeverNext ==
    (Called("nextSteps") /\ checkStepIDs(checklist))
    => \A i \in 1..Len(Result("nextSteps")) : ~OnCycle(checklist.steps, Result("nextSteps")[i].stepID)

(***************************************************************************)
(* C3: for a step list that passes checkStepIDs, cycles returns the empty  *)
(* sequence exactly when the dependsOn graph has no directed cycle          *)
(* (self-loops included); for a <-> b it returns both steps.               *)
(***************************************************************************)
TwoCycle(stepSeq) ==
    /\ Len(stepSeq) = 2
    /\ StepIDsOf(stepSeq) = <<"a", "b">>
    /\ stepSeq[1].dependsOn = <<"b">>
    /\ stepSeq[2].dependsOn = <<"a">>

C3_CyclesEmptyIffDAG ==
    (Called("cycles") /\ checkStepIDs(checklist))
    => /\ (Result("cycles") = <<>>) <=> Acyclic(checklist.steps)
       /\ TwoCycle(checklist.steps) => StepIDsOf(Result("cycles")) = <<"a", "b">>

\* cycles has answered on the mutual dependency a <-> b.
C3_Witness ==
    /\ Called("cycles")
    /\ TwoCycle(checklist.steps)
    /\ Len(Result("cycles")) = 2

(***************************************************************************)
(* C4: for a step list that passes checkStepIDs, cycles returns, in input  *)
(* order, exactly the steps that lie on a dependency cycle or depend,      *)
(* directly or transitively, on a step that does; a step that a cycle      *)
(* merely depends on is not returned; on the 7-step list of the test       *)
(* suite it returns e, f, g.                                               *)
(***************************************************************************)
BlockedByCycle(stepSeq, stepID) ==
    \E t \in AllDeps(stepSeq, stepID) \cup {stepID} : OnCycle(stepSeq, t)

C4_CyclesExact ==
    (Called("cycles") /\ checkStepIDs(checklist))
    => /\ Result("cycles") = SelectSeq(checklist.steps,
                              LAMBDA step : BlockedByCycle(checklist.steps, step.stepID))
       /\ (checklist.steps = Graph7 => StepIDsOf(Result("cycles")) = <<"e", "f", "g">>)

\* cycles has answered on the 7-step list, whose cycle e, f, g depends on
\* the levelled steps a and d.
C4_Witness ==
    /\ Called("cycles")
    /\ checklist.steps = Graph7
    /\ StepIDsOf(Result("cycles")) = <<"e", "f", "g">>

(***************************************************************************)
(* The executors, for stating the properties.                              *)
(***************************************************************************)
Steps == 1..Len(checklist.steps)

Runs == 1..Len(runs)

StepOf(r) == checklist.steps[runs[r]]

KindOf(r) == StepOf(r).stepType

EntryOf(r) == Get(context, StepOf(r).stepID)

\* The names of the effects of run r.
EffectsOf(r) == {trace[r][k].eff : k \in 1..Len(trace[r])}

\* No other run of the same step can have written since run r began:
\* every other run of the step began before r and could no longer write
\* when r began.
Undisturbed(r) ==
    \A q \in Runs \ {r} : runs[q] = runs[r] => (q < r /\ snap[r].alone)

ClientRequests == {"getBlock", "call", "signTransaction", "sendSignedTransaction", "send"}

\* The context entry of the step of run r as the in-flight mark of the run
\* left it: the marker if there was no entry, else the entry there was.
MarkedEntry(r) ==
    IF snap[r].entry = None THEN Some(InFlightMarker) ELSE snap[r].entry

ResultFields(step) ==
    <<step.value, step.output, step.txHash, step.success, step.blockNumber,
      step.blockHash>>

(***************************************************************************)
(* C5: when an executor's action has completed, the context entry of its   *)
(* step equals the entry that generateExecutionContext derives from the    *)
(* checklist for that step, for each of the four kinds (no other run of    *)
(* the same step having written meanwhile).                                *)
(***************************************************************************)
C5_ContextAgreesWithStep ==
    \A r \in Runs :
       (pc[r] = "done" /\ Undisturbed(r))
       => EntryOf(r) = Get(generateExecutionContext(checklist), StepOf(r).stepID)

(***************************************************************************)
(* C6: when the chain identifier the client reports differs from the       *)
(* step's chainID, the View and the Method executor fail at once: nothing  *)
(* but getChainId has been asked of the client, the step keeps its fields, *)
(* and the context keeps, for this step, the in-flight marker (or the      *)
(* entry that was there before the run).                                   *)
(***************************************************************************)
SawWrongChain(r) ==
    /\ KindOf(r) \in {"view", "method"}
    /\ loc[r].chainID # None
    /\ loc[r].chainID # StepOf(r).chainID

C6_AbortedState ==
    \A r \in Runs :
       SawWrongChain(r)
       => /\ pc[r] = "failed"
          /\ err[r] = "chain"
          /\ EffectsOf(r) \cap ClientRequests = {}
          /\ "context.terminal" \notin EffectsOf(r)
          /\ Undisturbed(r)
             => /\ StepOf(r) = snap[r].step
                /\ EntryOf(r) = MarkedEntry(r)

C6_AbortStep ==
    \A r \in Runs :
       (KindOf(r) \in {"view", "method"} /\ pc[r] = "getChainId"
           /\ loc'[Later(r)].chainID # None
           /\ loc'[Later(r)].chainID # StepOf(r).chainID)
       => /\ pc'[Later(r)] = "failed"
          /\ checklist' = checklist
          /\ context' = context
          /\ tx' = tx
          /\ trace' = trace

C6_ChainMismatchAborts == [](C6_AbortedState) /\ [][C6_AbortStep]_vars

\* A View step and a Method step have both been aborted by a wrong chain
\* identifier, each leaving its in-flight marker in the context.
C6_Witness ==
    \E i, j \in Runs :
       /\ KindOf(i) = "view" /\ KindOf(j) = "method"
       /\ pc[i] = "failed" /\ err[i] = "chain" /\ loc[i].chainID = Some("5")
       /\ pc[j] = "failed" /\ err[j] = "chain" /\ loc[j].chainID = Some("5")
       /\ EntryOf(i) = Some(InFlightMarker)
       /\ EntryOf(j) = Some(InFlightMarker)

(***************************************************************************)
(* C7: when the Method executor's action has resolved and written its      *)
(* terminal entry, the submission it started has settled: the              *)
(* transaction-hash handler or the error handler has run.                  *)
(***************************************************************************)
C7_MethodResolvesAfterSettlement ==
    \A i \in Runs :
       (KindOf(i) = "method" /\ pc[i] = "done") => tx[i] \in {"hashed", "errored"}

(***************************************************************************)
(* C8: no executor records a false success: the context entry of a Method  *)
(* step whose submission ended in an error does not say success = true,    *)
(* and no entry says success = true for a step whose run failed on the     *)
(* client and that had no entry before.                                    *)
(***************************************************************************)
SaysSuccess(entry) == entry # None /\ entry[1].success = Some(TRUE)

C8_NoFalseSuccess ==
    \A i \in Runs :
       Undisturbed(i)
       => /\ (KindOf(i) = "method" /\ tx[i] = "errored" /\ pc[i] = "done")
             => ~SaysSuccess(EntryOf(i))
          /\ (err[i] = "client" /\ snap[i].entry = None) => ~SaysSuccess(EntryOf(i))

(***************************************************************************)
(* C9: when the chain client fails during a Raw executor (signing or       *)
(* broadcast) or a View executor (block lookup or call), the action fails, *)
(* the step keeps the fields it had (a fresh step stays incomplete) and no *)
(* terminal entry is written: the context holds the in-flight marker, or   *)
(* the entry that was there before the run.                                *)
(***************************************************************************)
C9_ClientFailurePropagates ==
    \A i \in Runs :
       (KindOf(i) \in {"raw", "view"} /\ err[i] = "client")
       => /\ pc[i] = "failed"
          /\ "context.terminal" \notin EffectsOf(i)
          /\ Undisturbed(i)
             => /\ StepOf(i) = snap[i].step
                /\ (ResultFields(snap[i].step) = <<None, None, None, None, None, None>>
                       => ~isStepComplete(StepOf(i)))
                /\ EntryOf(i) = MarkedEntry(i)

\* The broadcast of a fresh Raw step and the call of a fresh View step have
\* both failed on the client.
C9_Witness ==
    \E i, j \in Runs :
       /\ KindOf(i) = "raw" /\ pc[i] = "failed" /\ err[i] = "client"
       /\ "sendSignedTransaction" \in EffectsOf(i)
       /\ KindOf(j) = "view" /\ pc[j] = "failed" /\ err[j] = "client"
       /\ "call" \in EffectsOf(j)
       /\ EntryOf(i) = Some(InFlightMarker)
       /\ EntryOf(j) = Some(InFlightMarker)

(***************************************************************************)
(* C10: a View or Method executor whose parameters name a stepID or a      *)
(* field that the context does not hold fails the step: no call and no     *)
(* transaction is issued with the rendered parameters, and no result is    *)
(* recorded.                                                               *)
(***************************************************************************)
C10_UnresolvedTemplateFails ==
    \A i \in Runs :
       (KindOf(i) \in {"view", "method"} /\ loc[i].unresolved)
       => /\ pc[i] = "failed"
          /\ EffectsOf(i) \cap {"getBlock", "call", "send"} = {}
          /\ "context.terminal" \notin EffectsOf(i)

(***************************************************************************)
(* C11: after a successful View executor, the step's blockNumber is the    *)
(* number of the block that getBlock returned for the caller's block       *)
(* reference, blockHash is that block's hash (when it has one), output is  *)
(* the call's result, and the call was issued at that block's number.      *)
(***************************************************************************)
\* The last effect of the given name in run i.
LastEffect(i, name) ==
    LET at == {k \in 1..Len(trace[i]) : trace[i][k].eff = name}
    IN  IF at = {} THEN None
        ELSE Some(trace[i][CHOOSE k \in at : \A m \in at : m <= k].detail)

C11_ViewRecordsResolvedBlock ==
    \A i \in Runs :
       (KindOf(i) = "view" /\ pc[i] = "done" /\ Undisturbed(i))
       => LET step == StepOf(i)
              block == loc[i].block[1]
          IN  /\ step.blockNumber = Some(block.number)
              /\ (block.hash # None => step.blockHash = block.hash)
              /\ Some(<<step.output[1]>>) = LastEffect(i, "step.output")
              /\ LastEffect(i, "call") = Some(loc[i].args[1] \o <<block.number>>)

(***************************************************************************)
(* C12: generateExecutionContext returns a mapping whose keys are exactly  *)
(* the stepIDs of the complete steps, each entry being that of a complete  *)
(* step with that stepID: executing = false; success = true for Manual and *)
(* View, the step's recorded success (false when absent) for Raw and       *)
(* Method; value = the input value (Manual), output (View), txHash (Raw)   *)
(* or output (Method).                                                     *)
(***************************************************************************)
\* The field whose presence completes a step of each kind.
CompletionField(step) ==
    CASE step.stepType = "manual" -> step.value
      [] step.stepType = "view" -> step.output
      [] step.stepType \in {"raw", "method"} -> step.txHash

EntryIsOf(entry, step) ==
    /\ entry.executing = Some(FALSE)
    /\ entry.success =
          (IF step.stepType \in {"manual", "view"} THEN Some(TRUE)
           ELSE IF step.success = None THEN Some(FALSE)
           ELSE step.success)
    /\ entry.value =
          (CASE step.stepType = "manual" -> step.value
             [] step.stepType = "view" -> step.output
             [] step.stepType = "raw" -> step.txHash
             [] step.stepType = "method" -> step.output)

C12_ContextOfCompleteSteps ==
    Called("generateExecutionContext")
    => LET stepSeq == checklist.steps
           done == {i \in 1..Len(stepSeq) : CompletionField(stepSeq[i]) # None}
       IN  /\ DOMAIN Result("generateExecutionContext").own = {stepSeq[i].stepID : i \in done}
           /\ \A k \in DOMAIN Result("generateExecutionContext").own :
                 \E i \in done :
                    /\ stepSeq[i].stepID = k
                    /\ EntryIsOf(Result("generateExecutionContext").own[k], stepSeq[i])

(***************************************************************************)
(* C13: cycles, nextSteps and generateExecutionContext never change the    *)
(* checklist: after any sequence of calls of them the order of             *)
(* checklist.steps and every field of every step are as they were given,   *)
(* and a call of one of them returns what its earlier call returned,       *)
(* whichever of them were called in between.                               *)
(***************************************************************************)
C13_AsGiven ==
    /\ Len(checklist.steps) = Len(snap)
    /\ \A i \in 1..Len(snap) : checklist.steps[i] = snap[i].step

C13_CallStep ==
    /\ checklist' = checklist
    /\ \A f \in Readers : (Called(f) /\ ret'[f] # None) => ret'[f] = ret[f]

C13_ReadersDoNotMutate == [](C13_AsGiven) /\ [][C13_CallStep]_vars

\* All three have been called on a list that the sort of nextSteps
\* reorders (b's level is below a's), and the list is in its input order.
C13_Witness ==
    /\ \A f \in Readers : Called(f)
    /\ Len(checklist.steps) = 2
    /\ checklist.steps[1].dependsOn = <<"b">>
    /\ checklist.steps[2].dependsOn = <<>>
    /\ StepIDsOf(checklist.steps) = <<"a", "b">>
    /\ StepIDsOf(Result("nextSteps")) = <<"b">>
    /\ Result("cycles") = <<>>

(***************************************************************************)
(* C14: checkStepIDs returns false if and only if some stepID occurs more  *)
(* than once in the checklist or some dependsOn entry names a stepID that  *)
(* no step has; a step that depends on itself or on a cycle still          *)
(* validates as true.                                                      *)
(***************************************************************************)
RepeatedID(stepSeq) ==
    \E i, j \in 1..Len(stepSeq) : i # j /\ stepSeq[i].stepID = stepSeq[j].stepID

DanglingDependency(stepSeq) ==
    \E i \in 1..Len(stepSeq) :
       \E j \in 1..Len(stepSeq[i].dependsOn) :
          stepSeq[i].dependsOn[j] \notin Range(StepIDsOf(stepSeq))

C14_ValidatesIDs ==
    Called("checkStepIDs")
    => (Result("checkStepIDs") = FALSE)
       <=> (RepeatedID(checklist.steps) \/ DanglingDependency(checklist.steps))

(***************************************************************************)
(* C15: for a checklist that passes checkStepIDs, the sequence returned by *)
(* nextSteps is ordered by ascending level, and steps of equal level keep  *)
(* their input order; for a fresh checklist without dependency edges it is *)
(* all the steps in input order.                                           *)
(***************************************************************************)
PositionOf(stepSeq, stepID) == CHOOSE i \in 1..Len(stepSeq) : stepSeq[i].stepID = stepID

C15_OutputInLevelOrder ==
    (Called("nextSteps") /\ checkStepIDs(checklist))
    => LET stepSeq == checklist.steps
           levels == calculateLevels(stepSeq, 1, EmptyObject)
       IN  /\ \A i, j \in 1..Len(Result("nextSteps")) :
                 (i < j /\ Get(levels, Result("nextSteps")[i].stepID) # None
                        /\ Get(levels, Result("nextSteps")[j].stepID) # None)
                 => LET li == levels.own[Result("nextSteps")[i].stepID]
                        lj == levels.own[Result("nextSteps")[j].stepID]
                    IN  /\ li <= lj
                        /\ li = lj => PositionOf(stepSeq, Result("nextSteps")[i].stepID)
                                         < PositionOf(stepSeq, Result("nextSteps")[j].stepID)
           /\ (\A k \in 1..Len(stepSeq) :
                  stepSeq[k].dependsOn = <<>> /\ CompletionField(stepSeq[k]) = None)
              => Result("nextSteps") = stepSeq

(***************************************************************************)
(* C16: isStepComplete holds exactly when the kind's completion field is   *)
(* set: value for Manual, output for View, txHash for Raw and for Method,  *)
(* whatever success is; a Method step that has an output but no txHash is  *)
(* incomplete.                                                             *)
(***************************************************************************)
C16_CompleteIffFieldSet ==
    Called("isStepComplete")
    => LET step == checklist.steps[Result("isStepComplete")[1]]
       IN  /\ Result("isStepComplete")[2] <=> (CompletionField(step) # None)
           /\ (step.stepType = "method" /\ step.txHash = None) => ~Result("isStepComplete")[2]

\* isStepComplete has answered false for a Method step that has an output
\* and a recorded success but no txHash.
C16_Witness ==
    /\ Called("isStepComplete")
    /\ checklist.steps[Result("isStepComplete")[1]].stepType = "method"
    /\ checklist.steps[Result("isStepComplete")[1]].output = Some("out")
    /\ checklist.steps[Result("isStepComplete")[1]].success = Some(TRUE)
    /\ checklist.steps[Result("isStepComplete")[1]].txHash = None
    /\ Result("isStepComplete")[2] = FALSE

(***************************************************************************)
(* C17: for every step list that passes checkStepIDs, leveling gives level *)
(* 1 to exactly the steps with empty dependsOn, and every other step that  *)
(* receives a level receives 1 + the greatest level of its direct          *)
(* dependencies, all of which have a level.                                *)
(***************************************************************************)
RECURSIVE MaxOf(_)
MaxOf(S) ==
    IF S = {} THEN 0
    ELSE LET x == CHOOSE y \in S : TRUE
             rest == MaxOf(S \ {x})
         IN  IF x > rest THEN x ELSE rest

C17_LevelsAreDepths ==
    (Called("calculateLevels") /\ checkStepIDs(checklist))
    => \A i \in 1..Len(checklist.steps) :
          LET step == checklist.steps[i]
              level == Get(Result("calculateLevels"), step.stepID)
          IN  /\ (level = Some(1)) <=> (step.dependsOn = <<>>)
              /\ (level # None /\ step.dependsOn # <<>>)
                 => /\ \A j \in 1..Len(step.dependsOn) :
                          Get(Result("calculateLevels"), step.dependsOn[j]) # None
                    /\ level[1] = 1 + MaxOf({Result("calculateLevels").own[step.dependsOn[j]] :
                                               j \in 1..Len(step.dependsOn)})

(***************************************************************************)
(* C18: each executor, as its first effect and before any request to the   *)
(* chain client, writes {executing: true} into the context for its stepID  *)
(* if and only if the context has no entry for that stepID; an entry that  *)
(* is already there (a stale marker or an earlier terminal result) stays   *)
(* as it is until the terminal write.                                      *)
(***************************************************************************)
MarkerAt(r) == {k \in 1..Len(trace[r]) : trace[r][k].eff = "context.marker"}

C18_Marked ==
    \A r \in Runs :
       /\ MarkerAt(r) = (IF snap[r].entry = None THEN {1} ELSE {})
       /\ (Undisturbed(r) /\ "context.terminal" \notin EffectsOf(r))
          => EntryOf(r) = MarkedEntry(r)

\* The effects that this step of the behaviour adds to run r.
NewEffects(r) ==
    IF runs' # runs /\ r = NewRun THEN {trace'[r][k].eff : k \in 1..Len(trace'[r])}
    ELSE {trace'[r][k].eff : k \in (Len(trace[Earlier(r)]) + 1)..Len(trace'[r])}

\* The context changes only by the marker of a run that begins and finds
\* no entry, and by a terminal write; each changes the entry of the run's
\* own step only.
C18_ContextStep ==
    context' # context
    => \E r \in 1..Len(runs') :
          /\ NewEffects(r) \cap {"context.marker", "context.terminal"} # {}
          /\ "context.marker" \in NewEffects(r)
             => /\ runs' # runs /\ r = NewRun
                /\ Get(context, checklist.steps[runs'[r]].stepID) = None
          /\ \A k \in (DOMAIN context.own) \cup (DOMAIN context'.own) :
                Get(context', k) # Get(context, k)
                => k = checklist.steps[runs'[r]].stepID

C18_MarkOnlyWhenAbsent == [](C18_Marked) /\ [][C18_ContextStep]_vars

(***************************************************************************)
(* C19: when the executors of two different steps, neither of whose        *)
(* parameter templates refers to the other, run concurrently, then under   *)
(* every interleaving of their suspension points each executor writes only *)
(* its own step's fields and its own context entry, the in-flight marker   *)
(* of an entry is written before its terminal result, and when both have   *)
(* completed each step and each entry is what the step's own run alone     *)
(* gives (so the outcome is that of running them one after the other).     *)
(***************************************************************************)
NoCrossReference ==
    \A i \in Steps :
       \A p \in 1..Len(checklist.steps[i].params) :
          \A k \in 1..Len(checklist.steps[i].params[p]) :
             checklist.steps[i].params[p][k].kind = "lit"

\* No step has more than one run.
OneRunEach == \A r, q \in Runs : runs[r] = runs[q] => r = q

\* The value that run i last wrote to a field, or the value the field had
\* when the run began.
WrittenOr(i, name, before) ==
    IF LastEffect(i, name) = None THEN before ELSE LastEffect(i, name)[1]

\* The step of run i as the run alone leaves it.
OwnFinalStep(i) ==
    LET before == snap[i].step
        kind == before.stepType
    IN  [before EXCEPT
            !.value = IF kind = "manual" THEN WrittenOr(i, "step.value", before.value)
                      ELSE before.value,
            !.output = WrittenOr(i, "step.output", before.output),
            !.txHash = WrittenOr(i, "step.txHash", before.txHash),
            !.success = IF kind = "raw" THEN Some(TRUE) ELSE before.success,
            !.blockNumber = IF kind = "view" THEN loc[i].blockNumber
                            ELSE before.blockNumber,
            !.blockHash = IF kind # "view" THEN before.blockHash
                          ELSE IF loc[i].block[1].hash # None THEN loc[i].block[1].hash
                          ELSE Some("unknown")]

\* The terminal entries that run i alone can leave.
OwnFinalEntries(i) ==
    LET step == StepOf(i)
    IN  CASE step.stepType = "manual" -> {StepResult(Some(TRUE), step.value, Some(FALSE))}
          [] step.stepType = "view" -> {StepResult(Some(TRUE), step.output, Some(FALSE))}
          [] step.stepType = "raw" -> {StepResult(Some(TRUE), None, Some(FALSE))}
          [] step.stepType = "method" ->
                {StepResult(Some(TRUE), snap[i].step.output, Some(FALSE)),
                 StepResult(Some(TRUE), step.output, Some(FALSE))}

C19_Outcome ==
    (NoCrossReference /\ OneRunEach)
    => /\ \A i \in Runs :
             \A t \in {k \in 1..Len(trace[i]) : trace[i][k].eff = "context.terminal"} :
                snap[i].entry # None \/ \E m \in MarkerAt(i) : m < t
       /\ (Len(runs) = Len(checklist.steps) /\ \A i \in Runs : pc[i] = "done")
          => /\ DOMAIN context.own = Range(StepIDsOf(checklist.steps))
             /\ \A i \in Runs :
                   /\ StepOf(i) = OwnFinalStep(i)
                   /\ context.own[StepOf(i).stepID] \in OwnFinalEntries(i)

\* A step of the behaviour changes only the step and the entry of the
\* executor that takes it.
C19_OwnWrites ==
    NoCrossReference
    => \A i \in 1..Len(runs'), j \in Runs :
          (runs'[i] # runs[j]
              /\ ((runs' # runs /\ i = NewRun) \/ trace'[i] # trace[Earlier(i)]))
          => /\ checklist'.steps[runs[j]] = checklist.steps[runs[j]]
             /\ Get(context', StepOf(j).stepID) = Get(context, StepOf(j).stepID)
             /\ trace'[Later(j)] = trace[j]

C19_ConcurrentAsSequential == [](C19_Outcome) /\ [][C19_OwnWrites]_vars

\* A View executor and a Raw executor are in flight at once, each awaiting
\* the client's last answer, each with its own marker in the context.
C19_Witness ==
    /\ NoCrossReference
    /\ OneRunEach
    /\ \E i, j \in Runs :
          /\ KindOf(i) = "view" /\ pc[i] = "call"
          /\ KindOf(j) = "raw" /\ pc[j] = "send"
          /\ EntryOf(i) = Some(InFlightMarker)
          /\ EntryOf(j) = Some(InFlightMarker)

(***************************************************************************)
(* C20: the Raw executor performs no chain check: it never asks the client *)
(* for its chain identifier and never fails for a wrong chain; when the    *)
(* client signs and broadcasts, txHash and success = true are recorded,    *)
(* also when the client's chain differs from the step's chainID.           *)
(***************************************************************************)
C20_RawIgnoresChain ==
    \A i \in Runs :
       KindOf(i) = "raw"
       => /\ "getChainId" \notin EffectsOf(i)
          /\ loc[i].chainID = None
          /\ err[i] # "chain"
          /\ pc[i] = "done"
             => /\ StepOf(i).txHash # None
                /\ StepOf(i).success = Some(TRUE)
                /\ {"signTransaction", "sendSignedTransaction"} \subseteq EffectsOf(i)

\* A Raw step for chain 1 has been signed, broadcast and recorded as a
\* success through a client that is on chain 5.
C20_Witness ==
    \E i \in Runs :
       /\ KindOf(i) = "raw"
       /\ pc[i] = "done"
       /\ StepOf(i).chainID = Some("1")
       /\ loc[i].web3 = Some("5")
       /\ StepOf(i).txHash = Some("0xt1")
       /\ StepOf(i).success = Some(TRUE)

(***************************************************************************)
(* The driven checklist, for stating the properties.                       *)
(***************************************************************************)
\* cycles(checklist.steps) reports step i.
Reported(i) == checklist.steps[i] \in Range(cycles(checklist.steps))

\* No action is in flight and no submission is still to report.
Quiescent == \A r \in Runs : ~InFlight(r) /\ tx[r] # "pending"

\* The action of step i has been called.
Executed(i) == \E r \in Runs : runs[r] = i

(***************************************************************************)
(* C21: starting from a fresh checklist that passes checkStepIDs and       *)
(* executing only steps that nextSteps returns, a step that cycles reports *)
(* is never returned by nextSteps, never executed and never complete;      *)
(* a step that cycles does not report is returned once its dependencies    *)
(* are complete, and as long as such a step is incomplete the caller is    *)
(* not stuck: when nothing is in flight, nextSteps returns a step that     *)
(* cycles does not report.                                                 *)
(***************************************************************************)
C21_CyclesBlockOnlyTheirSteps ==
    checkStepIDs(checklist)
    => /\ \A i \in Steps :
             Reported(i)
             => ~Returned(i) /\ ~Executed(i) /\ ~isStepComplete(checklist.steps[i])
       /\ \A i \in Steps :
             (/\ ~Reported(i)
              /\ ~isStepComplete(checklist.steps[i])
              /\ AllDeps(checklist.steps, checklist.steps[i].stepID)
                    \subseteq CompleteIDs(checklist.steps))
             => Returned(i)
       /\ (Quiescent /\ \E i \in Steps :
                           ~Reported(i) /\ ~isStepComplete(checklist.steps[i]))
          => \E j \in Steps : ~Reported(j) /\ Returned(j)

(***************************************************************************)
(* C22: leveling terminates for every finite step list, cyclic or not:     *)
(* every pass but the last levels at least one step that had no level, the *)
(* last pass levels none, and the passes are at most the number of steps   *)
(* plus one.                                                               *)
(***************************************************************************)
RECURSIVE SumSeq(_, _)
SumSeq(seq, n) == IF n = 0 THEN 0 ELSE seq[n] + SumSeq(seq, n - 1)

C22_LevelingTerminates ==
    Called("calculateLevels")
    => LET passes == levelingPasses(checklist.steps, 1, EmptyObject)
       IN  /\ Len(passes) <= Len(checklist.steps) + 1
           /\ passes[Len(passes)] = 0
           /\ \A k \in 1..(Len(passes) - 1) : passes[k] >= 1
           /\ SumSeq(passes, Len(passes)) <= Len(checklist.steps)
           /\ Len(passes) = 1 + MaxOf({Result("calculateLevels").own[k] :
                                          k \in DOMAIN Result("calculateLevels").own})

\* The 7-step list with the cycle e, f, g has been levelled: three passes
\* level a, then b and d, then c, and the fourth levels none and stops.
C22_Witness ==
    /\ Called("calculateLevels")
    /\ checklist.steps = Graph7
    /\ levelingPasses(checklist.steps, 1, EmptyObject) = <<1, 2, 1, 0>>
    /\ DOMAIN Result("calculateLevels").own = {"a", "b", "c", "d"}

(***************************************************************************)
(* C23: for a checklist that passes checkStepIDs and is acyclic, nextSteps *)
(* returns the empty sequence exactly when every step is complete (so a    *)
(* caller that keeps executing a returned step, each execution succeeding, *)
(* and recomputing nextSteps is never left without a step before all the   *)
(* steps are complete).                                                    *)
(***************************************************************************)
C23_EmptyIffAllComplete ==
    (Called("nextSteps") /\ checkStepIDs(checklist) /\ Acyclic(checklist.steps))
    => (Result("nextSteps") = <<>>)
       <=> (\A i \in 1..Len(checklist.steps) : isStepComplete(checklist.steps[i]))

(***************************************************************************)
(* C24: if execution starts from a checklist with no complete steps and a  *)
(* step is executed only while nextSteps returns it, then in every         *)
(* reachable state the complete steps are closed under dependencies:       *)
(* every direct and transitive dependency of a complete step is complete.  *)
(***************************************************************************)
C24_CompleteClosedUnderDependencies ==
    \A i \in Steps :
       isStepComplete(checklist.steps[i])
       => AllDeps(checklist.steps, checklist.steps[i].stepID)
             \subseteq CompleteIDs(checklist.steps)

(***************************************************************************)
(* C25: execution tolerates an aborted attempt.  After a View or Method    *)
(* executor has aborted on a chain-ID mismatch, the step is still          *)
(* incomplete and, its dependencies being complete, still returned by      *)
(* nextSteps; the context that generateExecutionContext builds from the    *)
(* checklist has no entry for it, while the live context keeps the stale   *)
(* {executing: true} marker; and when a later run of the same executor     *)
(* has gone through on the matching chain (for a Method step: the hash has *)
(* been reported), the step is complete and the terminal entry has         *)
(* replaced the stale marker.                                              *)
(***************************************************************************)
AbortedOnChain(r) ==
    /\ KindOf(r) \in {"view", "method"}
    /\ pc[r] = "failed" /\ err[r] = "chain"
    /\ ~isStepComplete(snap[r].step)
    /\ Undisturbed(r)

DependenciesComplete(step) ==
    AllDeps(checklist.steps, step.stepID) \subseteq CompleteIDs(checklist.steps)

RerunWentThrough(r) ==
    /\ KindOf(r) \in {"view", "method"}
    /\ snap[r].entry = Some(InFlightMarker)
    /\ pc[r] = "done"
    /\ KindOf(r) = "method" => tx[r] = "hashed"
    /\ Undisturbed(r)

C25_AbortTolerated ==
    \A r \in Runs :
       /\ AbortedOnChain(r)
          => /\ ~isStepComplete(StepOf(r))
             /\ DependenciesComplete(StepOf(r))
                => StepOf(r) \in Range(nextSteps(checklist))
             /\ Undefined(generateExecutionContext(checklist), StepOf(r).stepID)
             /\ EntryOf(r) = MarkedEntry(r)
       /\ RerunWentThrough(r)
          => /\ isStepComplete(StepOf(r))
             /\ EntryOf(r) # None
             /\ EntryOf(r)[1].success = Some(TRUE)
             /\ EntryOf(r)[1].executing = Some(FALSE)

\* The first run of a Method step aborted on the wrong chain and left its
\* marker; the second run, on the matching chain, has gone through and
\* the hash has been reported: the terminal entry stands in the marker's
\* place.
C25_Witness ==
    /\ Len(runs) = 2
    /\ runs[1] = runs[2]
    /\ KindOf(2) = "method"
    /\ pc[1] = "failed" /\ err[1] = "chain"
    /\ RerunWentThrough(2)
    /\ loc[2].chainID = StepOf(2).chainID
    /\ EntryOf(2) = Some(StepResult(Some(TRUE), None, Some(FALSE)))

(***************************************************************************)
(* C26: whenever an executor's action for a step is in flight (it has      *)
(* started and has neither written its terminal entry nor failed), the     *)
(* context entry for that stepID has executing = true, also when the       *)
(* executor has been re-entered on a step whose entry already held a       *)
(* terminal result.                                                        *)
(***************************************************************************)
C26_ExecutingWhileInFlight ==
    \A i \in Runs :
       InFlight(i)
       => /\ EntryOf(i) # None
          /\ EntryOf(i)[1].executing = Some(TRUE)

=============================================================================
